---- MODULE Spec2Model ----
(***************************************************************************)
(* miniflux-jobs: the rule Matcher (matcher.go) and the paginated          *)
(* Processor (processor.go) that drives it against a Miniflux server.      *)
(*                                                                         *)
(* Text (feed titles, authors, titles, contents, patterns, actions) is a   *)
(* sequence of one-character strings.  A pointer is a record with a nil    *)
(* flag.  A rule's Name is modelled by a number: the names of a            *)
(* configuration are taken to be pairwise distinct.                        *)
(***************************************************************************)
EXTENDS Integers, Sequences, FiniteSets, TLC

VARIABLES
  rules,      \* []Rule handed to NewMatcher (Config.Rules)
  matcher,    \* what NewMatcher returned: [m, err]
  entry,      \* the entry last handed to Matcher.Match
  result,     \* the MatchResult of that call
  mpc,        \* main's position: "config", "built", "failed", "matched"
  dryRun,     \* Processor.dryRun
  entries,    \* the remote's entries in the order it lists them; ID = position
  status,     \* the remote's status of each entry, by ID
  server,     \* TRUE: a Miniflux server behind ClientWrapper; FALSE: MockClient
  failIds,    \* the entries whose update the remote rejects
  skew,       \* how far the Total the remote reports exceeds what it lists
  loadErr,    \* what Config.Validate returned for the configuration of rules
  pc,         \* Process(): "idle", "fetch", "entries", "done"
  filter,     \* Process(): filter
  offset,     \* Process(): offset
  page,       \* Process(): result (Entries as IDs, Total)
  idx,        \* Process(): position of the range loop in result.Entries
  stats,      \* Process(): *stats
  retErr,     \* Process(): TRUE when it returned a non-nil error
  calls,      \* the remote operations of the current run, in order
  seen,       \* the IDs handed to processEntry in the current run, in order
  start,      \* the IDs that satisfied the run's filter when the run started
  changed,    \* TRUE when the current run has changed a status on the remote
  prev,       \* the statistics of the run before, if it left the remote as it was
  run,        \* Process() calls started so far
  lpc,        \* runLoop: "off" (not called), "initial", "loop", "returned"
  tick,       \* TRUE when ticker.C holds a tick
  sig,        \* TRUE when sigChan holds a signal
  mcalls      \* the Match calls of the goroutines sharing the Matcher, by caller

mvars == <<rules, matcher, entry, result, mpc, loadErr, mcalls>>
rvars == <<dryRun, entries, status, server, failIds, skew>>
pvars == <<pc, filter, offset, page, idx, stats, retErr, calls, seen, start,
           changed, prev, run>>
lvars == <<lpc, tick, sig>>

\* ------------------------------------------------------------------ bounds
\* longest rule sequence handed to NewMatcher
MaxRules == 2
\* the remote holds up to MaxPages full pages plus a partial one
MaxPages == 2
\* Process() calls made one after the other on the same Processor
MaxRuns == 2

\* ------------------------------------------------- text and Go's strings
EmptyText == << >>

\* strings.ToLower on the letters that occur in the actions of the model
LowerChar(c) ==
  CASE c = "R" -> "r"
    [] c = "E" -> "e"
    [] c = "A" -> "a"
    [] c = "D" -> "d"
    [] c = "M" -> "m"
    [] c = "O" -> "o"
    [] c = "V" -> "v"
    [] c = "S" -> "s"
    [] OTHER -> c

ToLower(s) == [i \in DOMAIN s |-> LowerChar(s[i])]

\* ------------------------------------------------------ Go's regexp subset
\* Patterns are written over the characters a b . * [ ; the subject texts
\* over a b.  regexp.Compile on this subset: an atom is a literal or '.',
\* optionally followed by '*'; a '*' with nothing to repeat and a '[' that
\* is never closed (the alphabet has no ']') are syntax errors.
RECURSIVE ParseFrom(_, _)
ParseFrom(p, i) ==
  IF i > Len(p) THEN [ok |-> TRUE, prog |-> << >>]
  ELSE IF p[i] = "*" \/ p[i] = "[" THEN [ok |-> FALSE, prog |-> << >>]
  ELSE LET star == i + 1 <= Len(p) /\ p[i + 1] = "*"
           rest == ParseFrom(p, IF star THEN i + 2 ELSE i + 1)
       IN  IF rest.ok
             THEN [ok |-> TRUE,
                   prog |-> << [ch |-> p[i], star |-> star] >> \o rest.prog]
             ELSE rest

\* regexp.Compile(pattern): (*Regexp, error)
Compile(p) ==
  LET r == ParseFrom(p, 1)
  IN  [re |-> [nil |-> ~r.ok, prog |-> r.prog], err |-> ~r.ok]

\* a nil *regexp.Regexp
NilRegexp == [nil |-> TRUE, prog |-> << >>]

CharMatch(a, c) == a = "." \/ a = c

RECURSIVE MatchHere(_, _, _, _)
MatchHere(prog, j, s, i) ==
  IF j > Len(prog) THEN TRUE
  ELSE IF prog[j].star
    THEN \/ MatchHere(prog, j + 1, s, i)
         \/ /\ i <= Len(s)
            /\ CharMatch(prog[j].ch, s[i])
            /\ MatchHere(prog, j, s, i + 1)
    ELSE /\ i <= Len(s)
         /\ CharMatch(prog[j].ch, s[i])
         /\ MatchHere(prog, j + 1, s, i + 1)

\* (*Regexp).MatchString(s): the pattern matches somewhere in s (unanchored)
MatchString(re, s) == \E i \in 1..(Len(s) + 1) : MatchHere(re.prog, 1, s, i)

\* ----------------------------------------------------------- matcher.go
NoError == [nil |-> TRUE, Field |-> "", Rule |-> 0]

RegexError(field, rule) == [nil |-> FALSE, Field |-> field, Rule |-> rule.Name]

\* CompileRule with the fields tried in the order content, title, author, feed
CompileRuleContentFirst(rule) ==
  LET cr0 == [rule |-> rule, feed |-> NilRegexp, author |-> NilRegexp,
              title |-> NilRegexp, content |-> NilRegexp]
      f == Compile(rule.Feed)
      a == Compile(rule.Author)
      t == Compile(rule.Title)
      c == Compile(rule.Content)
  IN  IF rule.Content # EmptyText /\ c.err
        THEN [err |-> RegexError("content", rule), cr |-> cr0]
      ELSE IF rule.Title # EmptyText /\ t.err
        THEN [err |-> RegexError("title", rule), cr |-> cr0]
      ELSE IF rule.Author # EmptyText /\ a.err
        THEN [err |-> RegexError("author", rule), cr |-> cr0]
      ELSE IF rule.Feed # EmptyText /\ f.err
        THEN [err |-> RegexError("feed", rule), cr |-> cr0]
      ELSE [err |-> NoError,
            cr |-> [rule |-> rule,
                    feed |-> IF rule.Feed # EmptyText THEN f.re ELSE NilRegexp,
                    author |-> IF rule.Author # EmptyText THEN a.re ELSE NilRegexp,
                    title |-> IF rule.Title # EmptyText THEN t.re ELSE NilRegexp,
                    content |-> IF rule.Content # EmptyText THEN c.re ELSE NilRegexp]]

\* the body of NewMatcher's loop for one rule: the four fields in the order
\* feed, author, title, content, returning at the first pattern that does
\* not compile
CompileRule(rule) ==
  LET cr0 == [rule |-> rule, feed |-> NilRegexp, author |-> NilRegexp,
              title |-> NilRegexp, content |-> NilRegexp]
      f == Compile(rule.Feed)
      a == Compile(rule.Author)
      t == Compile(rule.Title)
      c == Compile(rule.Content)
      cr1 == IF rule.Feed # EmptyText THEN [cr0 EXCEPT !.feed = f.re] ELSE cr0
      cr2 == IF rule.Author # EmptyText THEN [cr1 EXCEPT !.author = a.re] ELSE cr1
      cr3 == IF rule.Title # EmptyText THEN [cr2 EXCEPT !.title = t.re] ELSE cr2
      cr4 == IF rule.Content # EmptyText THEN [cr3 EXCEPT !.content = c.re] ELSE cr3
  IN  IF rule.Feed # EmptyText /\ f.err
        THEN [err |-> RegexError("feed", rule), cr |-> cr0]
      ELSE IF rule.Author # EmptyText /\ a.err
        THEN [err |-> RegexError("author", rule), cr |-> cr1]
      ELSE IF rule.Title # EmptyText /\ t.err
        THEN [err |-> RegexError("title", rule), cr |-> cr2]
      ELSE IF rule.Content # EmptyText /\ c.err
        THEN [err |-> RegexError("content", rule), cr |-> cr3]
      ELSE [err |-> NoError, cr |-> cr4]

\* a nil *Matcher
NilMatcher == [nil |-> TRUE, compiledRules |-> << >>]

RECURSIVE NewMatcherFrom(_, _, _)
NewMatcherFrom(rs, i, compiled) ==
  IF i > Len(rs)
    THEN [m |-> [nil |-> FALSE, compiledRules |-> compiled], err |-> NoError]
    ELSE LET c == CompileRule(rs[i])
         IN  IF ~c.err.nil
               THEN [m |-> NilMatcher, err |-> c.err]
               ELSE NewMatcherFrom(rs, i + 1, Append(compiled, c.cr))

\* NewMatcher(rules) (*Matcher, error)
NewMatcher(rs) == NewMatcherFrom(rs, 1, << >>)

\* matchRule that never looks at the content pattern
matchRuleNoContent(e, cr) ==
  LET feedTitle == IF ~e.Feed.nil THEN e.Feed.Title ELSE EmptyText
  IN  IF ~cr.feed.nil /\ ~MatchString(cr.feed, feedTitle) THEN FALSE
      ELSE IF ~cr.author.nil /\ ~MatchString(cr.author, e.Author) THEN FALSE
      ELSE IF ~cr.title.nil /\ ~MatchString(cr.title, e.Title) THEN FALSE
      ELSE TRUE

\* matchRule that rejects an entry without a feed before looking at the rule
matchRuleNilFeedRejects(e, cr) ==
  IF e.Feed.nil THEN FALSE
  ELSE IF ~cr.feed.nil /\ ~MatchString(cr.feed, e.Feed.Title) THEN FALSE
  ELSE IF ~cr.author.nil /\ ~MatchString(cr.author, e.Author) THEN FALSE
  ELSE IF ~cr.title.nil /\ ~MatchString(cr.title, e.Title) THEN FALSE
  ELSE IF ~cr.content.nil /\ ~MatchString(cr.content, e.Content) THEN FALSE
  ELSE TRUE

\* matchRule that skips the feed pattern for an entry without a feed
matchRuleNilFeedSkips(e, cr) ==
  IF ~cr.feed.nil /\ ~e.Feed.nil /\ ~MatchString(cr.feed, e.Feed.Title) THEN FALSE
  ELSE IF ~cr.author.nil /\ ~MatchString(cr.author, e.Author) THEN FALSE
  ELSE IF ~cr.title.nil /\ ~MatchString(cr.title, e.Title) THEN FALSE
  ELSE IF ~cr.content.nil /\ ~MatchString(cr.content, e.Content) THEN FALSE
  ELSE TRUE

\* Matcher.matchRule(entry, cr)
matchRule(e, cr) ==
  LET feedTitle == IF ~e.Feed.nil THEN e.Feed.Title ELSE EmptyText
  IN  IF ~cr.feed.nil /\ ~MatchString(cr.feed, feedTitle) THEN FALSE
      ELSE IF ~cr.author.nil /\ ~MatchString(cr.author, e.Author) THEN FALSE
      ELSE IF ~cr.title.nil /\ ~MatchString(cr.title, e.Title) THEN FALSE
      ELSE IF ~cr.content.nil /\ ~MatchString(cr.content, e.Content) THEN FALSE
      ELSE TRUE

\* the zero Rule and a nil *Rule
ZeroRule == [Name |-> 0, Feed |-> EmptyText, Author |-> EmptyText,
             Title |-> EmptyText, Content |-> EmptyText, Action |-> EmptyText]

NoRule == [nil |-> TRUE, rule |-> ZeroRule]

NoMatch == [Matched |-> FALSE, Rule |-> NoRule, Action |-> EmptyText]

RECURSIVE MatchFrom(_, _, _)
MatchFrom(crs, i, e) ==
  IF i > Len(crs) THEN NoMatch
  ELSE IF matchRule(e, crs[i])
    THEN [Matched |-> TRUE,
          Rule |-> [nil |-> FALSE, rule |-> crs[i].rule],
          Action |-> ToLower(crs[i].rule.Action)]
    ELSE MatchFrom(crs, i + 1, e)

\* Match that keeps looking after a match and returns the last matching rule
RECURSIVE MatchLastFrom(_, _, _)
MatchLastFrom(crs, i, e) ==
  IF i < 1 THEN NoMatch
  ELSE IF matchRule(e, crs[i])
    THEN [Matched |-> TRUE,
          Rule |-> [nil |-> FALSE, rule |-> crs[i].rule],
          Action |-> ToLower(crs[i].rule.Action)]
    ELSE MatchLastFrom(crs, i - 1, e)

MatchLast(m, e) == MatchLastFrom(m.compiledRules, Len(m.compiledRules), e)

\* Match that reports a match with the zero rule when no rule matched
MatchDefaultsToMatched(m, e) ==
  LET r == MatchFrom(m.compiledRules, 1, e)
  IN  IF r.Matched THEN r ELSE [r EXCEPT !.Matched = TRUE]

\* Matcher.Match(entry) MatchResult
Match(m, e) == MatchFrom(m.compiledRules, 1, e)

\* ------------------------------------------------------------ config.go
NoConfigError == [nil |-> TRUE, what |-> "", rule |-> 0]

ConfigError(what, i) == [nil |-> FALSE, what |-> what, rule |-> i]

\* the loop of Config.Validate over c.Rules, from rule i on (i counts from 0
\* in the messages, from 1 here)
RECURSIVE ValidateRulesFrom(_, _)
ValidateRulesFrom(rs, i) ==
  IF i > Len(rs) THEN NoConfigError
  ELSE IF rs[i].Name = 0 THEN ConfigError("name is required", i)
  ELSE IF ToLower(rs[i].Action) # << "r", "e", "a", "d" >>
          /\ ToLower(rs[i].Action) # << "r", "e", "m", "o", "v", "e" >>
    THEN ConfigError("action must be 'read' or 'remove'", i)
  ELSE ValidateRulesFrom(rs, i + 1)

\* Validate that checks the rule names and not the actions
ValidateSkipsActions(c) ==
  IF c.MinifluxURL = EmptyText THEN ConfigError("miniflux_url is required", 0)
  ELSE IF c.Interval < 0 THEN ConfigError("interval must be >= 0", 0)
  ELSE IF \E i \in DOMAIN c.Rules : c.Rules[i].Name = 0
    THEN ConfigError("name is required",
                     CHOOSE i \in DOMAIN c.Rules :
                       /\ c.Rules[i].Name = 0
                       /\ \A j \in 1..(i - 1) : c.Rules[j].Name # 0)
  ELSE NoConfigError

\* Config.Validate() error
Validate(c) ==
  IF c.MinifluxURL = EmptyText THEN ConfigError("miniflux_url is required", 0)
  ELSE IF c.Interval < 0 THEN ConfigError("interval must be >= 0", 0)
  ELSE ValidateRulesFrom(c.Rules, 1)

\* a configuration with these rules, a server address and single-run mode
ConfigOf(rs) ==
  [MinifluxURL |-> << "u" >>, Interval |-> 0, Rules |-> rs]

\* ------------------------------------------------- inputs of the Matcher
A == << "a" >>
B == << "b" >>
DotStar == << ".", "*" >>
Unclosed == << "[" >>

ActRead == << "r", "e", "a", "d" >>
ActRemove == << "r", "e", "m", "o", "v", "e" >>
ActRemoveMixed == << "R", "e", "m", "o", "v", "E" >>
ActUnknown == << "S", "t", "a", "r" >>

Patterns == {EmptyText, A, DotStar, Unclosed}
Texts == {A, B}
Actions == {ActRead, ActRemoveMixed}

NilFeed == [nil |-> TRUE, Title |-> EmptyText]
FeedOf(t) == [nil |-> FALSE, Title |-> t]
Feeds == {NilFeed, FeedOf(EmptyText), FeedOf(A), FeedOf(B)}

MkRule(f, a, t, c, act) ==
  [Name |-> 0, Feed |-> f, Author |-> a, Title |-> t, Content |-> c, Action |-> act]

\* every single rule over Patterns
RuleShapes ==
  {MkRule(f, a, t, c, act) : f \in Patterns, a \in Patterns, t \in Patterns,
                             c \in Patterns, act \in Actions}

\* the rules that longer configurations are made of
ListShapes ==
  { MkRule(EmptyText, EmptyText, EmptyText, EmptyText, ActRead),
    MkRule(EmptyText, A, EmptyText, EmptyText, ActRead),
    MkRule(EmptyText, A, EmptyText, EmptyText, ActRemoveMixed),
    MkRule(EmptyText, EmptyText, A, EmptyText, ActRemoveMixed),
    MkRule(DotStar, EmptyText, EmptyText, A, ActRead),
    MkRule(EmptyText, EmptyText, Unclosed, EmptyText, ActRead),
    MkRule(Unclosed, EmptyText, EmptyText, Unclosed, ActRemoveMixed) }

\* the i-th rule of a configuration carries the i-th name
Named(rs) == [i \in DOMAIN rs |-> [rs[i] EXCEPT !.Name = i]]

RuleSeqs ==
  {<< >>} \cup {Named(<< r >>) : r \in RuleShapes}
          \cup UNION {{Named(rs) : rs \in [1..n -> ListShapes]} : n \in 2..MaxRules}

MatchEntries ==
  {[ID |-> 1, Feed |-> f, Author |-> a, Title |-> t, Content |-> c] :
     f \in Feeds, a \in Texts, t \in Texts, c \in Texts}

ZeroEntry == [ID |-> 0, Feed |-> NilFeed, Author |-> EmptyText,
              Title |-> EmptyText, Content |-> EmptyText]

\* ------------------------------------------- the Matcher on its own
ZeroStats == [TotalEntries |-> 0, MatchedEntries |-> 0, MarkedRead |-> 0,
              Removed |-> 0, Errors |-> 0]

ZeroFilter == [Limit |-> 0, Status |-> "", Offset |-> 0]

NoPage == [Entries |-> << >>, Total |-> 0]

\* no earlier run to compare with
NoPrev == [ok |-> FALSE, stats |-> ZeroStats]

\* no Processor has been built
\* runLoop has not been called
NoLoop == lpc = "off" /\ tick = FALSE /\ sig = FALSE

\* no goroutine is calling Match
NoCalls == mcalls = << >>

NoProcessor ==
  /\ NoLoop
  /\ dryRun = FALSE /\ entries = << >> /\ status = << >> /\ server = FALSE
  /\ failIds = {} /\ pc = "idle" /\ filter = ZeroFilter /\ offset = 0
  /\ page = NoPage /\ idx = 0 /\ stats = ZeroStats /\ retErr = FALSE
  /\ calls = << >> /\ seen = << >> /\ start = {} /\ run = 0
  /\ skew = 0 /\ changed = FALSE /\ prev = NoPrev

InitMatcher ==
  /\ rules \in RuleSeqs
  /\ entry \in MatchEntries
  /\ matcher = [m |-> NilMatcher, err |-> NoError]
  /\ result = NoMatch
  /\ mpc = "config"
  /\ loadErr = Validate(ConfigOf(rules))
  /\ NoCalls
  /\ NoProcessor

\* main: matcher, err := NewMatcher(config.Rules)
DoNewMatcher ==
  /\ mpc = "config"
  /\ matcher' = NewMatcher(rules)
  /\ mpc' = IF matcher'.err.nil THEN "built" ELSE "failed"
  /\ UNCHANGED <<rules, entry, result, loadErr, rvars, pvars, lvars, mcalls>>

\* result := matcher.Match(entry)
DoMatch ==
  /\ mpc = "built"
  /\ result' = Match(matcher.m, entry)
  /\ mpc' = "matched"
  /\ UNCHANGED <<rules, entry, matcher, loadErr, rvars, pvars, lvars, mcalls>>

NextMatcher == DoNewMatcher \/ DoMatch

vars == <<mvars, rvars, pvars, lvars>>

MatcherSpec == InitMatcher /\ [][NextMatcher]_vars

\* ------------------------------------- Match called from several goroutines
\* the goroutines (Processors) that share the Matcher
Callers == {1, 2}

\* configurations of valid rules, of more than one rule
SharedRuleSeqs ==
  {rs \in RuleSeqs : Len(rs) > 1 /\ NewMatcher(rs).err.nil}

\* the entries the callers hand to Match
SharedEntries ==
  {[ID |-> 1, Feed |-> FeedOf(A), Author |-> a, Title |-> t, Content |-> B] :
     a \in Texts, t \in Texts}

\* a Match call: its entry, the position of its range loop over
\* m.compiledRules, its MatchResult once it has returned
NewCall(e) == [entry |-> e, i |-> 0, res |-> NoMatch, at |-> "idle"]

InitShared ==
  /\ rules \in SharedRuleSeqs
  /\ matcher = NewMatcher(rules)
  /\ mpc = "built"
  /\ entry = ZeroEntry
  /\ result = NoMatch
  /\ loadErr = Validate(ConfigOf(rules))
  /\ mcalls \in [Callers -> {NewCall(e) : e \in SharedEntries}]
  /\ NoLoop
  /\ dryRun = FALSE /\ entries = << >> /\ status = << >> /\ server = FALSE
  /\ failIds = {} /\ pc = "idle" /\ filter = ZeroFilter /\ offset = 0
  /\ page = NoPage /\ idx = 0 /\ stats = ZeroStats /\ retErr = FALSE
  /\ calls = << >> /\ seen = << >> /\ start = {} /\ run = 0
  /\ skew = 0 /\ changed = FALSE /\ prev = NoPrev

\* caller c enters m.Match(entry)
MatchCall(c) ==
  /\ mcalls[c].at = "idle"
  /\ mcalls' = [mcalls EXCEPT ![c].at = "loop", ![c].i = 1]
  /\ UNCHANGED <<rules, matcher, entry, result, mpc, loadErr, rvars, pvars, lvars>>

\* the rule at position i moved to the head of the slice
MoveToFront(crs, i) ==
  << crs[i] >> \o SubSeq(crs, 1, i - 1) \o SubSeq(crs, i + 1, Len(crs))

\* MatchStep that moves the rule that matched to the head of
\* m.compiledRules, to find it sooner the next time
MatchStepMoveToFront(c) ==
  /\ mcalls[c].at = "loop"
  /\ LET crs == matcher.m.compiledRules
         k == mcalls[c].i
         e == mcalls[c].entry
     IN  IF k > Len(crs)
           THEN /\ mcalls' = [mcalls EXCEPT ![c].at = "done", ![c].res = NoMatch]
                /\ matcher' = matcher
         ELSE IF matchRule(e, crs[k])
           THEN /\ mcalls' = [mcalls EXCEPT
                                ![c].at = "done",
                                ![c].res = [Matched |-> TRUE,
                                            Rule |-> [nil |-> FALSE, rule |-> crs[k].rule],
                                            Action |-> ToLower(crs[k].rule.Action)]]
                /\ matcher' = [matcher EXCEPT !.m.compiledRules = MoveToFront(crs, k)]
         ELSE /\ mcalls' = [mcalls EXCEPT ![c].i = k + 1]
              /\ matcher' = matcher
  /\ UNCHANGED <<rules, entry, result, mpc, loadErr, rvars, pvars, lvars>>

\* one iteration of the range loop of caller c's Match, or its return after
\* the loop: matchRule on the rule at the loop's position
MatchStep(c) ==
  /\ mcalls[c].at = "loop"
  /\ LET crs == matcher.m.compiledRules
         k == mcalls[c].i
         e == mcalls[c].entry
     IN  IF k > Len(crs)
           THEN mcalls' = [mcalls EXCEPT ![c].at = "done", ![c].res = NoMatch]
         ELSE IF matchRule(e, crs[k])
           THEN mcalls' = [mcalls EXCEPT
                             ![c].at = "done",
                             ![c].res = [Matched |-> TRUE,
                                         Rule |-> [nil |-> FALSE, rule |-> crs[k].rule],
                                         Action |-> ToLower(crs[k].rule.Action)]]
         ELSE mcalls' = [mcalls EXCEPT ![c].i = k + 1]
  /\ UNCHANGED <<rules, matcher, entry, result, mpc, loadErr, rvars, pvars, lvars>>

NextShared == \E c \in Callers : MatchCall(c) \/ MatchStep(c)

SharedSpec == InitShared /\ [][NextShared]_vars

\* ------------------------------------------------------ the remote source
\* miniflux.EntryStatusUnread, EntryStatusRead, EntryStatusRemoved
EntryStatusUnread == "unread"
EntryStatusRead == "read"
EntryStatusRemoved == "removed"

\* the IDs the remote lists for a status filter, in its order.  The server
\* lists the entries whose current status is the requested one (all of them
\* without a filter); MockClient.Entries never looks at filter.Status.
Listed(st) ==
  SelectSeq([i \in 1..Len(entries) |-> i],
            LAMBDA i : ~server \/ st = "" \/ status[i] = st)

\* MinifluxClient.Entries(filter) without a transport error: offset and
\* limit applied to the listed entries, Total the number listed, which the
\* server counts in a query of its own (skew: entries that came in between)
Entries(f) ==
  LET all == Listed(f.Status)
      end == IF f.Offset + f.Limit > Len(all) \/ f.Limit = 0
               THEN Len(all) ELSE f.Offset + f.Limit
  IN  IF f.Offset >= Len(all)
        THEN [Entries |-> << >>, Total |-> Len(all) + skew]
        ELSE [Entries |-> SubSeq(all, f.Offset + 1, end),
              Total |-> Len(all) + skew]

\* MinifluxClient.UpdateEntries(ids, status) succeeds
UpdateOK(ids) == \A k \in DOMAIN ids : ids[k] \notin failIds

\* the remote's statuses after UpdateEntries(ids, st): the server applies a
\* request it accepts, MockClient only records it
UpdateEntries(ids, st) ==
  IF server /\ UpdateOK(ids)
    THEN [i \in DOMAIN status |->
            IF \E k \in DOMAIN ids : ids[k] = i THEN st ELSE status[i]]
    ELSE status

\* --------------------------------------------------------- processor.go
Limit == 100

NoUpdate == [issued |-> FALSE, ids |-> << >>, status |-> "", ok |-> FALSE]

\* processEntry that tests dryRun before it counts the action
processEntryDryRunFirst(e, st) ==
  LET res == Match(matcher.m, e)
      st1 == [st EXCEPT !.MatchedEntries = @ + 1]
      isRead == res.Action = ActRead
      isRemove == res.Action = ActRemove
      newStatus == IF isRead THEN EntryStatusRead ELSE EntryStatusRemoved
      st2 == IF isRead THEN [st1 EXCEPT !.MarkedRead = @ + 1]
                       ELSE [st1 EXCEPT !.Removed = @ + 1]
      ok == UpdateOK(<< e.ID >>)
      upd == [issued |-> TRUE, ids |-> << e.ID >>, status |-> newStatus, ok |-> ok]
  IN  IF ~res.Matched
        THEN [stats |-> st, res |-> res, update |-> NoUpdate]
      ELSE IF dryRun
        THEN [stats |-> st1, res |-> res, update |-> NoUpdate]
      ELSE IF ~isRead /\ ~isRemove
        THEN [stats |-> [st1 EXCEPT !.Errors = @ + 1], res |-> res,
              update |-> NoUpdate]
      ELSE IF ~ok
        THEN [stats |-> [st2 EXCEPT !.Errors = @ + 1], res |-> res, update |-> upd]
      ELSE [stats |-> st2, res |-> res, update |-> upd]

\* processEntry that logs a failed update without counting it
processEntryFailureUncounted(e, st) ==
  LET res == Match(matcher.m, e)
      st1 == [st EXCEPT !.MatchedEntries = @ + 1]
      isRead == res.Action = ActRead
      isRemove == res.Action = ActRemove
      newStatus == IF isRead THEN EntryStatusRead ELSE EntryStatusRemoved
      st2 == IF isRead THEN [st1 EXCEPT !.MarkedRead = @ + 1]
                       ELSE [st1 EXCEPT !.Removed = @ + 1]
      ok == UpdateOK(<< e.ID >>)
      upd == [issued |-> TRUE, ids |-> << e.ID >>, status |-> newStatus, ok |-> ok]
  IN  IF ~res.Matched
        THEN [stats |-> st, res |-> res, update |-> NoUpdate]
      ELSE IF ~isRead /\ ~isRemove
        THEN [stats |-> [st1 EXCEPT !.Errors = @ + 1], res |-> res,
              update |-> NoUpdate]
      ELSE IF dryRun
        THEN [stats |-> st2, res |-> res, update |-> NoUpdate]
      ELSE [stats |-> st2, res |-> res, update |-> upd]

\* processEntry that counts the error of an unknown action without counting
\* the entry as matched
processEntryErrorsUnmatched(e, st) ==
  LET res == Match(matcher.m, e)
      st1 == [st EXCEPT !.MatchedEntries = @ + 1]
      isRead == res.Action = ActRead
      isRemove == res.Action = ActRemove
      newStatus == IF isRead THEN EntryStatusRead ELSE EntryStatusRemoved
      st2 == IF isRead THEN [st1 EXCEPT !.MarkedRead = @ + 1]
                       ELSE [st1 EXCEPT !.Removed = @ + 1]
      ok == UpdateOK(<< e.ID >>)
      upd == [issued |-> TRUE, ids |-> << e.ID >>, status |-> newStatus, ok |-> ok]
  IN  IF ~res.Matched
        THEN [stats |-> st, res |-> res, update |-> NoUpdate]
      ELSE IF ~isRead /\ ~isRemove
        THEN [stats |-> [st EXCEPT !.Errors = @ + 1], res |-> res,
              update |-> NoUpdate]
      ELSE IF dryRun
        THEN [stats |-> st2, res |-> res, update |-> NoUpdate]
      ELSE IF ~ok
        THEN [stats |-> [st2 EXCEPT !.Errors = @ + 1], res |-> res, update |-> upd]
      ELSE [stats |-> st2, res |-> res, update |-> upd]

\* processEntry that switches on the rule's action as written in the
\* configuration instead of the lower-cased action of the match result
processEntryCaseSensitive(e, st) ==
  LET res == Match(matcher.m, e)
      st1 == [st EXCEPT !.MatchedEntries = @ + 1]
      isRead == res.Matched /\ res.Rule.rule.Action = ActRead
      isRemove == res.Matched /\ res.Rule.rule.Action = ActRemove
      newStatus == IF isRead THEN EntryStatusRead ELSE EntryStatusRemoved
      st2 == IF isRead THEN [st1 EXCEPT !.MarkedRead = @ + 1]
                       ELSE [st1 EXCEPT !.Removed = @ + 1]
      ok == UpdateOK(<< e.ID >>)
      upd == [issued |-> TRUE, ids |-> << e.ID >>, status |-> newStatus, ok |-> ok]
  IN  IF ~res.Matched
        THEN [stats |-> st, res |-> res, update |-> NoUpdate]
      ELSE IF ~isRead /\ ~isRemove
        THEN [stats |-> [st1 EXCEPT !.Errors = @ + 1], res |-> res,
              update |-> NoUpdate]
      ELSE IF dryRun
        THEN [stats |-> st2, res |-> res, update |-> NoUpdate]
      ELSE IF ~ok
        THEN [stats |-> [st2 EXCEPT !.Errors = @ + 1], res |-> res, update |-> upd]
      ELSE [stats |-> st2, res |-> res, update |-> upd]

\* processEntry whose default case counts the error and then goes on to the
\* update (the return is missing)
processEntryUnknownFallsThrough(e, st) ==
  LET res == Match(matcher.m, e)
      st1 == [st EXCEPT !.MatchedEntries = @ + 1]
      isRead == res.Action = ActRead
      isRemove == res.Action = ActRemove
      newStatus == IF isRead THEN EntryStatusRead
                   ELSE IF isRemove THEN EntryStatusRemoved ELSE ""
      st2 == IF isRead THEN [st1 EXCEPT !.MarkedRead = @ + 1]
             ELSE IF isRemove THEN [st1 EXCEPT !.Removed = @ + 1]
             ELSE [st1 EXCEPT !.Errors = @ + 1]
      ok == UpdateOK(<< e.ID >>)
      upd == [issued |-> TRUE, ids |-> << e.ID >>, status |-> newStatus, ok |-> ok]
  IN  IF ~res.Matched
        THEN [stats |-> st, res |-> res, update |-> NoUpdate]
      ELSE IF dryRun
        THEN [stats |-> st2, res |-> res, update |-> NoUpdate]
      ELSE IF ~ok
        THEN [stats |-> [st2 EXCEPT !.Errors = @ + 1], res |-> res, update |-> upd]
      ELSE [stats |-> st2, res |-> res, update |-> upd]

\* Processor.processEntry(entry, stats): the statistics afterwards, the
\* match result and the update request it issued, if any
processEntry(e, st) ==
  LET res == Match(matcher.m, e)
      st1 == [st EXCEPT !.MatchedEntries = @ + 1]
      isRead == res.Action = ActRead
      isRemove == res.Action = ActRemove
      newStatus == IF isRead THEN EntryStatusRead ELSE EntryStatusRemoved
      st2 == IF isRead THEN [st1 EXCEPT !.MarkedRead = @ + 1]
                       ELSE [st1 EXCEPT !.Removed = @ + 1]
      ok == UpdateOK(<< e.ID >>)
      upd == [issued |-> TRUE, ids |-> << e.ID >>, status |-> newStatus, ok |-> ok]
  IN  IF ~res.Matched
        THEN [stats |-> st, res |-> res, update |-> NoUpdate]
      ELSE IF ~isRead /\ ~isRemove
        THEN [stats |-> [st1 EXCEPT !.Errors = @ + 1], res |-> res,
              update |-> NoUpdate]
      ELSE IF dryRun
        THEN [stats |-> st2, res |-> res, update |-> NoUpdate]
      ELSE IF ~ok
        THEN [stats |-> [st2 EXCEPT !.Errors = @ + 1], res |-> res, update |-> upd]
      ELSE [stats |-> st2, res |-> res, update |-> upd]

FetchCall(f, ok) ==
  [op |-> "fetch", status |-> f.Status, limit |-> f.Limit, offset |-> f.Offset,
   ids |-> << >>, ok |-> ok]

UpdateCall(u) ==
  [op |-> "update", status |-> u.status, limit |-> 0, offset |-> 0,
   ids |-> u.ids, ok |-> u.ok]

\* the filter with the unread status in both modes
NewFilterAlwaysUnread ==
  [Limit |-> Limit, Status |-> EntryStatusUnread, Offset |-> 0]

\* the filter Process() builds before its loop
NewFilter ==
  [Limit |-> Limit, Status |-> IF ~dryRun THEN EntryStatusUnread ELSE "",
   Offset |-> 0]

\* StartProcess that goes on with the statistics of the Processor's last run
StartProcessKeepsStats ==
  /\ mpc = "built"
  /\ pc \in {"idle", "done"}
  /\ run < MaxRuns
  /\ run' = run + 1
  /\ stats' = stats
  /\ filter' = NewFilter
  /\ offset' = 0
  /\ page' = NoPage
  /\ idx' = 0
  /\ retErr' = FALSE
  /\ calls' = << >>
  /\ seen' = << >>
  /\ start' = {Listed(NewFilter.Status)[k] : k \in 1..Len(Listed(NewFilter.Status))}
  /\ changed' = FALSE
  /\ prev' = IF pc = "done" /\ ~retErr /\ ~changed
               THEN [ok |-> TRUE, stats |-> stats] ELSE NoPrev
  /\ pc' = "fetch"
  /\ UNCHANGED <<mvars, rvars, lvars>>

\* Process() is called: fresh statistics, the filter, offset := 0
ProcessCall ==
  /\ mpc = "built"
  /\ pc \in {"idle", "done"}
  /\ run < MaxRuns
  /\ run' = run + 1
  /\ stats' = ZeroStats
  /\ filter' = NewFilter
  /\ offset' = 0
  /\ page' = NoPage
  /\ idx' = 0
  /\ retErr' = FALSE
  /\ calls' = << >>
  /\ seen' = << >>
  /\ start' = {Listed(NewFilter.Status)[k] : k \in 1..Len(Listed(NewFilter.Status))}
  /\ changed' = FALSE
  /\ prev' = IF pc = "done" /\ ~retErr /\ ~changed
               THEN [ok |-> TRUE, stats |-> stats] ELSE NoPrev
  /\ pc' = "fetch"
  /\ UNCHANGED <<mvars, rvars>>

\* Process() called by a caller other than runLoop (runOnce, the tests)
StartProcess == ProcessCall /\ UNCHANGED lvars

\* FetchPage that returns no statistics with the error
FetchPageDropsStats ==
  /\ pc = "fetch"
  /\ \E fails \in BOOLEAN :
       LET f == [filter EXCEPT !.Offset = offset]
           res == Entries(f)
       IN  /\ filter' = f
           /\ calls' = Append(calls, FetchCall(f, ~fails))
           /\ retErr' = fails
           /\ stats' = IF fails THEN ZeroStats ELSE stats
           /\ page' = IF fails THEN NoPage ELSE res
           /\ idx' = IF fails \/ Len(res.Entries) = 0 THEN 0 ELSE 1
           /\ pc' = IF fails \/ Len(res.Entries) = 0 THEN "done" ELSE "entries"
  /\ UNCHANGED <<mvars, rvars, lvars, offset, seen, start, changed, prev, run>>

\* the head of the loop: filter.Offset = offset; p.client.Entries(filter);
\* return on an error, leave the loop on an empty page
FetchPage ==
  /\ pc = "fetch"
  /\ \E fails \in BOOLEAN :
       LET f == [filter EXCEPT !.Offset = offset]
           res == Entries(f)
       IN  /\ filter' = f
           /\ calls' = Append(calls, FetchCall(f, ~fails))
           /\ retErr' = fails
           /\ page' = IF fails THEN NoPage ELSE res
           /\ idx' = IF fails \/ Len(res.Entries) = 0 THEN 0 ELSE 1
           /\ pc' = IF fails \/ Len(res.Entries) = 0 THEN "done" ELSE "entries"
  /\ UNCHANGED <<mvars, rvars, lvars, offset, stats, seen, start, changed, prev, run>>

\* ProcessEntry that walks the page from its last entry to its first
ProcessEntryReversed ==
  /\ pc = "entries"
  /\ idx <= Len(page.Entries)
  /\ LET e == entries[page.Entries[Len(page.Entries) - idx + 1]]
         r == processEntry(e, [stats EXCEPT !.TotalEntries = @ + 1])
         last == idx = Len(page.Entries)
         off == offset + Len(page.Entries)
     IN  /\ stats' = r.stats
         /\ entry' = e
         /\ result' = r.res
         /\ seen' = Append(seen, e.ID)
         /\ calls' = IF r.update.issued THEN Append(calls, UpdateCall(r.update))
                                        ELSE calls
         /\ status' = IF r.update.issued
                        THEN UpdateEntries(r.update.ids, r.update.status)
                        ELSE status
         /\ changed' = (changed \/ status' # status)
         /\ idx' = idx + 1
         /\ offset' = IF last THEN off ELSE offset
         /\ pc' = IF last /\ off >= page.Total THEN "done"
                  ELSE IF last THEN "fetch" ELSE "entries"
  /\ UNCHANGED <<rules, matcher, mpc, loadErr, dryRun, entries, server, failIds,
                 skew, filter, page, retErr, start, prev, run, lvars, mcalls>>

\* ProcessEntry that leaves the offset where it was after a page
ProcessEntryOffsetStays ==
  /\ pc = "entries"
  /\ idx <= Len(page.Entries)
  /\ LET e == entries[page.Entries[idx]]
         r == processEntry(e, [stats EXCEPT !.TotalEntries = @ + 1])
         last == idx = Len(page.Entries)
         off == offset
     IN  /\ stats' = r.stats
         /\ entry' = e
         /\ result' = r.res
         /\ seen' = Append(seen, e.ID)
         /\ calls' = IF r.update.issued THEN Append(calls, UpdateCall(r.update))
                                        ELSE calls
         /\ status' = IF r.update.issued
                        THEN UpdateEntries(r.update.ids, r.update.status)
                        ELSE status
         /\ changed' = (changed \/ status' # status)
         /\ idx' = idx + 1
         /\ offset' = IF last THEN off ELSE offset
         /\ pc' = IF last /\ off >= page.Total THEN "done"
                  ELSE IF last THEN "fetch" ELSE "entries"
  /\ UNCHANGED <<rules, matcher, mpc, loadErr, dryRun, entries, server, failIds,
                 skew, filter, page, retErr, start, prev, run, lvars, mcalls>>

\* ProcessEntry that also leaves the loop after a page shorter than the
\* requested limit
ProcessEntryStopsOnShortPage ==
  /\ pc = "entries"
  /\ idx <= Len(page.Entries)
  /\ LET e == entries[page.Entries[idx]]
         r == processEntry(e, [stats EXCEPT !.TotalEntries = @ + 1])
         last == idx = Len(page.Entries)
         off == offset + Len(page.Entries)
     IN  /\ stats' = r.stats
         /\ entry' = e
         /\ result' = r.res
         /\ seen' = Append(seen, e.ID)
         /\ calls' = IF r.update.issued THEN Append(calls, UpdateCall(r.update))
                                        ELSE calls
         /\ status' = IF r.update.issued
                        THEN UpdateEntries(r.update.ids, r.update.status)
                        ELSE status
         /\ changed' = (changed \/ status' # status)
         /\ idx' = idx + 1
         /\ offset' = IF last THEN off ELSE offset
         /\ pc' = IF last /\ (off >= page.Total \/ Len(page.Entries) < filter.Limit)
                    THEN "done"
                  ELSE IF last THEN "fetch" ELSE "entries"
  /\ UNCHANGED <<rules, matcher, mpc, loadErr, dryRun, entries, server, failIds,
                 skew, filter, page, retErr, start, prev, run, lvars, mcalls>>

\* one iteration of the range loop over result.Entries; after the last
\* entry of the page, offset += len(result.Entries) and the test against
\* result.Total
ProcessEntry ==
  /\ pc = "entries"
  /\ idx <= Len(page.Entries)
  /\ LET e == entries[page.Entries[idx]]
         r == processEntry(e, [stats EXCEPT !.TotalEntries = @ + 1])
         last == idx = Len(page.Entries)
         off == offset + Len(page.Entries)
     IN  /\ stats' = r.stats
         /\ entry' = e
         /\ result' = r.res
         /\ seen' = Append(seen, e.ID)
         /\ calls' = IF r.update.issued THEN Append(calls, UpdateCall(r.update))
                                        ELSE calls
         /\ status' = IF r.update.issued
                        THEN UpdateEntries(r.update.ids, r.update.status)
                        ELSE status
         /\ changed' = (changed \/ status' # status)
         /\ idx' = idx + 1
         /\ offset' = IF last THEN off ELSE offset
         /\ pc' = IF last /\ off >= page.Total THEN "done"
                  ELSE IF last THEN "fetch" ELSE "entries"
  /\ UNCHANGED <<rules, matcher, mpc, loadErr, dryRun, entries, server, failIds,
                 skew, filter, page, retErr, start, prev, run, lvars, mcalls>>

Next == StartProcess \/ FetchPage \/ ProcessEntry

\* ------------------------------------------------- inputs of the Processor
Half == Limit \div 2

\* how many entries the remote holds
Sizes == {p * Limit + d : p \in 0..MaxPages, d \in {0, 1, Half}}

\* read first, then remove, then an action the Processor does not know
ProcRules ==
  Named(<< MkRule(EmptyText, A, EmptyText, EmptyText, ActRead),
           MkRule(EmptyText, EmptyText, A, EmptyText, ActRemoveMixed),
           MkRule(EmptyText, EmptyText, EmptyText, A, ActUnknown) >>)

Shape(a, t, c, st) == [Author |-> a, Title |-> t, Content |-> c, status |-> st]

\* the remote's entries repeat one of these sequences
Layouts ==
  { << Shape(A, B, B, EntryStatusUnread) >>,
    << Shape(B, B, B, EntryStatusUnread), Shape(A, A, B, EntryStatusUnread),
       Shape(B, A, B, EntryStatusUnread), Shape(B, B, A, EntryStatusUnread),
       Shape(A, B, B, EntryStatusRead) >> }

ShapeAt(l, i) == l[((i - 1) % Len(l)) + 1]

EntriesOf(n, l) ==
  [i \in 1..n |-> [ID |-> i, Feed |-> NilFeed, Author |-> ShapeAt(l, i).Author,
                   Title |-> ShapeAt(l, i).Title, Content |-> ShapeAt(l, i).Content]]

\* ProcRules without the rule Config.Validate rejects
ValidRules ==
  Named(<< MkRule(EmptyText, A, EmptyText, EmptyText, ActRead),
           MkRule(EmptyText, EmptyText, A, EmptyText, ActRemoveMixed) >>)

NoFailures == {}
SomeFailures == {2, Limit + 1}

\* the configurations and remotes a Processor is built from; the Total the
\* remote reports is exact (skew 0) or one too many
Scenarios ==
  { [rules |-> ProcRules, failIds |-> SomeFailures, skew |-> 0],
    [rules |-> ValidRules, failIds |-> NoFailures, skew |-> 0],
    [rules |-> ValidRules, failIds |-> SomeFailures, skew |-> 1],
    [rules |-> << >>, failIds |-> NoFailures, skew |-> 0] }

\* the state after main() has loaded the configuration and built the Matcher
\* and the Processor, in one of the scenarios scs and with r earlier Process()
\* calls counted
InitAt(r, scs) ==
  /\ \E sc \in scs :
       /\ rules = sc.rules
       /\ failIds = sc.failIds
       /\ skew = sc.skew
  /\ loadErr = Validate(ConfigOf(rules))
  /\ matcher = NewMatcher(rules)
  /\ mpc = "built"
  /\ entry = ZeroEntry
  /\ result = NoMatch
  /\ NoCalls
  /\ dryRun \in BOOLEAN
  /\ server \in BOOLEAN
  /\ \E n \in Sizes, l \in Layouts :
       /\ entries = EntriesOf(n, l)
       /\ status = [i \in 1..n |-> ShapeAt(l, i).status]
  /\ pc = "idle" /\ filter = ZeroFilter /\ offset = 0
  /\ page = NoPage /\ idx = 0 /\ stats = ZeroStats /\ retErr = FALSE
  /\ calls = << >> /\ seen = << >> /\ start = {} /\ run = r
  /\ changed = FALSE /\ prev = NoPrev

Init == InitAt(0, Scenarios) /\ NoLoop

Spec == Init /\ [][Next]_vars

\* ------------------------------------------------------- main.go: runLoop
\* runLoop is entered: the ticker is made, the initial run not yet started.
\* The remote holds less than half a page.
LoopInit ==
  /\ InitAt(0, Scenarios)
  /\ Len(entries) < Half
  /\ lpc = "initial" /\ tick = FALSE /\ sig = FALSE

\* "Run immediately on start": the Process() call before the for loop
InitialRun ==
  /\ lpc = "initial"
  /\ ProcessCall
  /\ lpc' = "loop"
  /\ UNCHANGED <<tick, sig>>

\* select takes case <-ticker.C and calls Process()
SelectTick ==
  /\ lpc = "loop" /\ pc = "done"
  /\ tick
  /\ ProcessCall
  /\ tick' = FALSE
  /\ UNCHANGED <<lpc, sig>>

\* select takes case sig := <-sigChan and runLoop returns
SelectSignal ==
  /\ lpc = "loop" /\ pc = "done"
  /\ sig
  /\ lpc' = "returned"
  /\ sig' = FALSE
  /\ UNCHANGED <<mvars, rvars, pvars, tick>>

\* the ticker fires; its channel holds one tick and drops the others
Tick ==
  /\ lpc \in {"initial", "loop"}
  /\ ~tick
  /\ tick' = TRUE
  /\ UNCHANGED <<mvars, rvars, pvars, lpc, sig>>

\* SIGINT or SIGTERM arrives; sigChan holds one signal
Signal ==
  /\ lpc \in {"initial", "loop"}
  /\ ~sig
  /\ sig' = TRUE
  /\ UNCHANGED <<mvars, rvars, pvars, lpc, tick>>

LoopNext ==
  \/ InitialRun \/ SelectTick \/ SelectSignal
  \/ Tick \/ Signal
  \/ FetchPage \/ ProcessEntry

LoopSpec == LoopInit /\ [][LoopNext]_vars

\* ------------------------------------------------------------- properties
Min(S) == CHOOSE x \in S : \A y \in S : x <= y

Last(q) == q[Len(q)]

\* Process() has returned, without an error
Returned == pc = "done"
ReturnedNil == pc = "done" /\ ~retErr

UpdateCalls == {k \in DOMAIN calls : calls[k].op = "update"}
FailedCalls == {k \in DOMAIN calls : ~calls[k].ok}

\* the rule that decides an entry prescribes read or remove
Actionable(e) ==
  LET r == Match(matcher.m, e)
  IN  r.Matched /\ (r.Action = ActRead \/ r.Action = ActRemove)

\* C1: pagination completeness. When a run returns without a fetch error
\* (from a remote that reports its Total exactly), TotalEntries is the
\* number of entries that satisfied the run's status filter when the run
\* started, in live mode as well as in dry-run mode.
C1_PaginationComplete ==
  (ReturnedNil /\ skew = 0) => stats.TotalEntries = Cardinality(start)

\* C2: exhaustive live run. In live mode against a server whose unread
\* listing reflects the updates of the run, with no failed fetch or update,
\* every entry that was unread at the start and whose rule prescribes read
\* or remove has received an update request when Process() returns.
C2_ExhaustiveLiveRun ==
  (ReturnedNil /\ ~dryRun /\ server /\ FailedCalls = {} /\ skew = 0) =>
    \A id \in start :
      Actionable(entries[id]) =>
        \E k \in UpdateCalls : \E j \in DOMAIN calls[k].ids : calls[k].ids[j] = id

\* ---- the Matcher's claims, under MatcherSpec
FeedTitleOf(e) == IF e.Feed.nil THEN EmptyText ELSE e.Feed.Title

\* a pattern is empty or, compiled, matches the text
PatternHolds(p, text) == p = EmptyText \/ MatchString(Compile(p).re, text)

\* every non-empty pattern of the rule matches the corresponding field
RuleHolds(rule, e) ==
  /\ PatternHolds(rule.Feed, FeedTitleOf(e))
  /\ PatternHolds(rule.Author, e.Author)
  /\ PatternHolds(rule.Title, e.Title)
  /\ PatternHolds(rule.Content, e.Content)

Holding == {i \in DOMAIN rules : RuleHolds(rules[i], entry)}

\* C3: first-match-wins. Match() returns the rule with the smallest
\* declaration index among the rules whose non-empty patterns all match the
\* entry, with that rule's (lower-cased) action; never a later one.
C3_FirstMatchWins ==
  (mpc = "matched" /\ Holding # {}) =>
    /\ result.Matched
    /\ ~result.Rule.nil
    /\ result.Rule.rule = rules[Min(Holding)]
    /\ result.Action = ToLower(rules[Min(Holding)].Action)

C3_Witness ==
  /\ mpc = "matched"
  /\ Cardinality(Holding) >= 2
  /\ rules[1].Action # rules[2].Action
  /\ result.Rule.rule.Name = 1

\* C4: AND within a rule. Match() reports a match exactly when some rule
\* has every one of its non-empty patterns matching its field; one
\* populated pattern that does not match makes the rule fail.
C4_AndWithinRule ==
  mpc = "matched" =>
    (result.Matched <=> \E i \in DOMAIN rules : RuleHolds(rules[i], entry))

C4_Witness ==
  /\ mpc = "matched"
  /\ Len(rules) = 1
  /\ rules[1].Feed = A /\ rules[1].Author = A
  /\ rules[1].Title = A /\ rules[1].Content = A
  /\ entry.Feed = FeedOf(A) /\ entry.Author = A /\ entry.Title = A
  /\ entry.Content = B
  /\ ~result.Matched

\* the two entries agree on every attribute the rule has a pattern for
SameOnPopulated(rule, e1, e2) ==
  /\ rule.Feed # EmptyText => e1.Feed = e2.Feed
  /\ rule.Author # EmptyText => e1.Author = e2.Author
  /\ rule.Title # EmptyText => e1.Title = e2.Title
  /\ rule.Content # EmptyText => e1.Content = e2.Content

AllEmpty(rule) ==
  /\ rule.Feed = EmptyText /\ rule.Author = EmptyText
  /\ rule.Title = EmptyText /\ rule.Content = EmptyText

\* C5: unpopulated fields are ignored. An entry that differs from the
\* matched one only in attributes no rule has a pattern for gets the same
\* result, and a configuration with an all-empty rule matches every entry.
C5_UnpopulatedIgnored ==
  mpc = "matched" =>
    /\ \A e2 \in MatchEntries :
         (\A i \in DOMAIN rules : SameOnPopulated(rules[i], entry, e2))
           => Match(matcher.m, e2) = result
    /\ (\E i \in DOMAIN rules : AllEmpty(rules[i])) => result.Matched

C5_Witness ==
  /\ mpc = "matched"
  /\ Len(rules) = 1
  /\ rules[1].Author = A /\ rules[1].Feed = EmptyText
  /\ rules[1].Title = EmptyText /\ rules[1].Content = EmptyText
  /\ entry.Feed.nil /\ entry.Author = A /\ entry.Title = B /\ entry.Content = B
  /\ result.Matched

\* C6 as stated: an entry without a feed never matches a rule whose feed
\* pattern is non-empty.
C6_FeedlessNeverMatches ==
  mpc = "matched" =>
    \A i \in DOMAIN rules :
      (rules[i].Feed # EmptyText /\ entry.Feed.nil) =>
        /\ ~matchRule(entry, matcher.m.compiledRules[i])
        /\ ~(result.Matched /\ result.Rule.rule = rules[i])

\* C6, amended: an entry without a feed never matches a rule whose feed
\* pattern is non-empty and does not match the empty string.
C6_FeedlessAsEmptyTitle ==
  mpc = "matched" =>
    \A i \in DOMAIN rules :
      (/\ rules[i].Feed # EmptyText
       /\ entry.Feed.nil
       /\ ~MatchString(Compile(rules[i].Feed).re, EmptyText)) =>
        /\ ~matchRule(entry, matcher.m.compiledRules[i])
        /\ ~(result.Matched /\ result.Rule.rule = rules[i])

C6_Witness ==
  /\ mpc = "matched"
  /\ Len(rules) = 1
  /\ rules[1].Feed = A /\ rules[1].Author = A
  /\ rules[1].Title = EmptyText /\ rules[1].Content = EmptyText
  /\ entry.Feed.nil /\ entry.Author = A
  /\ ~result.Matched

Invalid(p) == p # EmptyText /\ Compile(p).err

BadRules == {i \in DOMAIN rules :
               \/ Invalid(rules[i].Feed) \/ Invalid(rules[i].Author)
               \/ Invalid(rules[i].Title) \/ Invalid(rules[i].Content)}

FirstBadField(rule) ==
  IF Invalid(rule.Feed) THEN "feed"
  ELSE IF Invalid(rule.Author) THEN "author"
  ELSE IF Invalid(rule.Title) THEN "title"
  ELSE "content"

\* C7: fail-fast construction. With an invalid non-empty pattern NewMatcher
\* returns no Matcher and an error naming the first offending rule and,
\* within it, the first invalid field in the order feed, author, title,
\* content; otherwise a Matcher with one compiled rule per rule, in order.
C7_FailFast ==
  mpc # "config" =>
    IF BadRules # {}
      THEN /\ matcher.m.nil
           /\ ~matcher.err.nil
           /\ matcher.err.Rule = rules[Min(BadRules)].Name
           /\ matcher.err.Field = FirstBadField(rules[Min(BadRules)])
      ELSE /\ ~matcher.m.nil
           /\ matcher.err.nil
           /\ Len(matcher.m.compiledRules) = Len(rules)
           /\ \A i \in DOMAIN rules :
                /\ matcher.m.compiledRules[i].rule = rules[i]
                /\ matcher.m.compiledRules[i].feed.nil <=> rules[i].Feed = EmptyText
                /\ matcher.m.compiledRules[i].author.nil <=> rules[i].Author = EmptyText
                /\ matcher.m.compiledRules[i].title.nil <=> rules[i].Title = EmptyText
                /\ matcher.m.compiledRules[i].content.nil <=> rules[i].Content = EmptyText

C7_Witness ==
  /\ mpc = "failed"
  /\ Len(rules) = 1
  /\ rules[1].Feed = A
  /\ Invalid(rules[1].Author) /\ Invalid(rules[1].Content)
  /\ matcher.err.Field = "author"

\* ---- the Processor's claims, under Spec
\* what the rules say about the entries seen, whatever the mode
MatchedSeen == {k \in DOMAIN seen : Match(matcher.m, entries[seen[k]]).Matched}
ReadSeen == {k \in MatchedSeen : Match(matcher.m, entries[seen[k]]).Action = ActRead}
RemoveSeen == {k \in MatchedSeen : Match(matcher.m, entries[seen[k]]).Action = ActRemove}

\* C8: a dry run never issues an update call, and the counters TotalEntries,
\* MatchedEntries, MarkedRead and Removed it returns are a function of the
\* sequence of entries fetched alone, the same in dry-run and in live mode.
C8_DryRunSameCounters ==
  /\ dryRun => UpdateCalls = {}
  /\ Returned =>
       /\ stats.TotalEntries = Len(seen)
       /\ stats.MatchedEntries = Cardinality(MatchedSeen)
       /\ stats.MarkedRead = Cardinality(ReadSeen)
       /\ stats.Removed = Cardinality(RemoveSeen)

C8_Witness ==
  /\ Returned /\ dryRun /\ ~retErr
  /\ stats.TotalEntries > Limit
  /\ stats.MarkedRead > 0 /\ stats.Removed > 0
  /\ stats.MatchedEntries < stats.TotalEntries
  /\ UpdateCalls = {}

\* the step issued an update request that the remote rejected
FailedUpdateStep ==
  Len(calls') = Len(calls) + 1 /\ Last(calls').op = "update" /\ ~Last(calls').ok

\* C9: update failures are not fatal. A failed update request adds exactly
\* one to Errors, the loop goes on as after a successful one (next entry of
\* the page, next page, or the normal return), every entry the loop reaches
\* is counted and matched, and only a failed fetch makes Process() return
\* an error.
C9_UpdateFailureNotFatal ==
  [][ /\ FailedUpdateStep =>
           /\ ~dryRun
           /\ stats'.Errors = stats.Errors + 1
           /\ stats'.TotalEntries = stats.TotalEntries + 1
           /\ ~retErr'
           /\ idx < Len(page.Entries) => (pc' = "entries" /\ idx' = idx + 1)
           /\ (idx = Len(page.Entries) /\ offset' < page.Total) => pc' = "fetch"
           /\ (idx = Len(page.Entries) /\ offset' >= page.Total) => pc' = "done"
      /\ (pc = "entries" /\ idx' # idx) =>
           /\ stats'.TotalEntries = stats.TotalEntries + 1
           /\ entry' = entries[page.Entries[idx]]
           /\ result' = Match(matcher.m, entry')
      /\ retErr' => (Last(calls').op = "fetch" /\ ~Last(calls').ok)
    ]_vars

C9_Witness ==
  /\ Returned /\ ~retErr /\ ~dryRun
  /\ stats.Errors >= 1
  /\ \E i \in FailedCalls :
       /\ calls[i].op = "update"
       /\ i < Len(calls) /\ calls[i + 1].op = "update"
       /\ \E j \in (i + 1)..Len(calls) :
            /\ calls[j].op = "fetch" /\ calls[j].ok
            /\ j < Len(calls) /\ calls[j + 1].op = "update"

\* the step issued a page request that failed
FailedFetchStep ==
  Len(calls') = Len(calls) + 1 /\ Last(calls').op = "fetch" /\ ~Last(calls').ok

\* C10: fetch failures are fatal. A failed page fetch makes Process() return
\* a non-nil error with the statistics as they stood after the pages already
\* processed, and the run issues no further fetch or update call.
C10_FetchFailureFatal ==
  [][ /\ FailedFetchStep =>
           /\ pc' = "done" /\ retErr'
           /\ stats' = stats
           /\ stats'.TotalEntries = offset
      /\ (pc = "done" /\ retErr) => (calls' = calls \/ run' = run + 1)
    ]_vars

C10_Witness ==
  /\ Returned /\ retErr
  /\ stats.TotalEntries >= Limit
  /\ stats.MatchedEntries > 0
  /\ Len(calls) > 2 /\ ~Last(calls).ok /\ Last(calls).op = "fetch"

\* the entry the range loop is at
Current == entries[page.Entries[idx]]

\* the step is one iteration of the range loop
EntryStep == pc = "entries" /\ idx' # idx

\* the loop goes on after the entry as the code's loop does
LoopGoesOn ==
  /\ ~retErr'
  /\ idx < Len(page.Entries) => (pc' = "entries" /\ idx' = idx + 1)
  /\ (idx = Len(page.Entries) /\ offset' < page.Total) => pc' = "fetch"
  /\ (idx = Len(page.Entries) /\ offset' >= page.Total) => pc' = "done"

\* the first rule matching the entry has an action that lower-cases to
\* neither read nor remove
UnknownAction(e) ==
  LET r == Match(matcher.m, e)
  IN  /\ r.Matched
      /\ ToLower(r.Rule.rule.Action) # ActRead
      /\ ToLower(r.Rule.rule.Action) # ActRemove

\* C11: unknown action. An entry whose rule's lower-cased action is neither
\* read nor remove is counted in MatchedEntries, adds one to Errors, leaves
\* MarkedRead and Removed alone, causes no update call, and the loop goes on.
C11_UnknownAction ==
  [][ (EntryStep /\ UnknownAction(Current)) =>
        /\ stats'.TotalEntries = stats.TotalEntries + 1
        /\ stats'.MatchedEntries = stats.MatchedEntries + 1
        /\ stats'.Errors = stats.Errors + 1
        /\ stats'.MarkedRead = stats.MarkedRead
        /\ stats'.Removed = stats.Removed
        /\ calls' = calls
        /\ status' = status
        /\ LoopGoesOn
    ]_vars

C11_Witness ==
  /\ pc = "entries" /\ ~dryRun
  /\ result.Matched
  /\ result.Action # ActRead /\ result.Action # ActRemove
  /\ stats.Errors >= 2
  /\ calls # << >> /\ Last(calls).op = "update" /\ Last(calls).ok
  /\ Last(calls).ids # << entry.ID >>

\* the step processes the last entry of the page
PageEndStep == EntryStep /\ idx = Len(page.Entries)

\* the step is one call of client.Entries
FetchStep == pc = "fetch" /\ Len(calls') = Len(calls) + 1

\* C12 as stated: short-page termination. After the last entry of a page the
\* run ends exactly when the offset has reached the reported total or the
\* page held fewer than 100 entries; no fetch follows a short page.
C12_ShortPageEndsRun ==
  [][ PageEndStep =>
        (pc' = "done" <=>
           (offset' >= page.Total \/ Len(page.Entries) < Limit))
    ]_vars

\* C12 amended: a run ends when a fetch fails, when a page is empty, or when
\* the offset, advanced by the length of the page, has reached the reported
\* total; after a non-empty page, short or not, Process() fetches again
\* exactly when the reported total is larger than the offset.
C12_EndsOnTotalOrEmptyPage ==
  [][ /\ PageEndStep =>
           /\ offset' = offset + Len(page.Entries)
           /\ pc' = "done" <=> offset' >= page.Total
           /\ pc' = "fetch" <=> offset' < page.Total
      /\ FetchStep =>
           /\ pc' = "done" <=> (retErr' \/ page'.Entries = << >>)
           /\ pc' = "entries" <=> (~retErr' /\ page'.Entries # << >>)
    ]_vars

C12_Witness ==
  /\ ReturnedNil
  /\ skew = 1
  /\ Len(seen) = Half
  /\ page.Entries = << >>
  /\ Len(calls) > 1 /\ Last(calls).op = "fetch" /\ Last(calls).offset = Half

\* the status the configuration prescribes for the entry: that of the first
\* matching rule's action, compared without regard to case; "" when no rule
\* matches or the action is neither
PrescribedStatus(e) ==
  LET r == Match(matcher.m, e)
  IN  IF ~r.Matched THEN ""
      ELSE IF ToLower(r.Rule.rule.Action) = ActRead THEN EntryStatusRead
      ELSE IF ToLower(r.Rule.rule.Action) = ActRemove THEN EntryStatusRemoved
      ELSE ""

\* C13: in live mode an entry whose first matching rule has action read or
\* remove (in any case) gets exactly one update request, with that entry's
\* identifier alone and the status read or removed; an entry that matches no
\* rule gets none. Stated per step: the iteration over such an entry appends
\* exactly that call, and no other step appends an update call.
C13_OneUpdatePerActionableEntry ==
  [][ /\ (EntryStep /\ ~dryRun) =>
           IF PrescribedStatus(Current) = ""
             THEN calls' = calls
             ELSE /\ Len(calls') = Len(calls) + 1
                  /\ SubSeq(calls', 1, Len(calls)) = calls
                  /\ Last(calls').op = "update"
                  /\ Last(calls').ids = << Current.ID >>
                  /\ Last(calls').status = PrescribedStatus(Current)
      /\ (Len(calls') > Len(calls) /\ Last(calls').op = "update") =>
           (EntryStep /\ ~dryRun /\ Len(seen') = Len(seen) + 1)
    ]_vars

C13_Witness ==
  /\ ~dryRun /\ pc = "entries"
  /\ result.Matched
  /\ result.Rule.rule.Action = ActRemoveMixed
  /\ Last(calls).op = "update"
  /\ Last(calls).ids = << entry.ID >>
  /\ Last(calls).status = EntryStatusRemoved
  /\ \E j \in DOMAIN seen : ~Match(matcher.m, entries[seen[j]]).Matched
  /\ \E k \in UpdateCalls : calls[k].status = EntryStatusRead

\* the update calls of the run so far that asked for status st and succeeded
SucceededUpdates(st) ==
  {k \in UpdateCalls : calls[k].status = st /\ calls[k].ok}

\* C14: statistics meaning in live mode. When Process() returns, MarkedRead
\* is the number of update requests with status read that succeeded and
\* Removed the number of update requests with status removed that succeeded.
C14_CountersAreAppliedUpdates ==
  (Returned /\ ~dryRun) =>
    /\ stats.MarkedRead = Cardinality(SucceededUpdates(EntryStatusRead))
    /\ stats.Removed = Cardinality(SucceededUpdates(EntryStatusRemoved))

\* the fetch calls of the run so far
FetchCalls == {k \in DOMAIN calls : calls[k].op = "fetch"}

\* C15: status filter by mode. Every page request of a live run asks for
\* status unread and every page request of a dry-run for no status; all
\* requests of a run ask for limit 100, and the filter passed on differs
\* from call to call in nothing but the offset.
C15_StatusFilterByMode ==
  /\ \A k \in FetchCalls :
       /\ calls[k].status = IF dryRun THEN "" ELSE EntryStatusUnread
       /\ calls[k].limit = 100
  /\ pc # "idle" =>
       /\ filter.Status = IF dryRun THEN "" ELSE EntryStatusUnread
       /\ filter.Limit = 100

C15_Witness ==
  /\ dryRun
  /\ \E j, k \in FetchCalls :
       /\ calls[j].offset = 0 /\ calls[k].offset = 100
       /\ calls[j].status = "" /\ calls[k].status = ""
  /\ \E id \in {seen[j] : j \in DOMAIN seen} : status[id] = EntryStatusRead

\* C16: empty rule sequence. NewMatcher of no rules returns a Matcher and no
\* error; that Matcher reports no match for every entry of the remote; a
\* run with it counts no matched entry and makes no update call.
C16_EmptyRulesNeverMatch ==
  rules = << >> =>
    /\ matcher.err.nil /\ ~matcher.m.nil
    /\ matcher = NewMatcher(<< >>)
    /\ \A id \in DOMAIN entries : Match(matcher.m, entries[id]) = NoMatch
    /\ seen # << >> => result = NoMatch
    /\ stats.MatchedEntries = 0 /\ stats.MarkedRead = 0
    /\ stats.Removed = 0 /\ stats.Errors = 0
    /\ UpdateCalls = {}

C16_Witness ==
  /\ rules = << >>
  /\ ReturnedNil /\ ~dryRun
  /\ stats.TotalEntries > Limit
  /\ stats.MatchedEntries = 0
  /\ Len(calls) > 1

\* the action of the rule lower-cases to read or to remove
LegalAction(r) == ToLower(r.Action) = ActRead \/ ToLower(r.Action) = ActRemove

\* the update calls of the run so far that failed
FailedUpdates == {k \in UpdateCalls : ~calls[k].ok}

\* C17: action legality is the loader's. Validate rejects a configuration
\* that has a rule with an action other than read or remove (in any case);
\* in a run with the rules of a configuration it accepts no entry takes the
\* unknown-action branch and Errors is the number of failed update calls.
C17_LoaderEnforcesActions ==
  /\ (\E i \in DOMAIN rules : ~LegalAction(rules[i])) => ~loadErr.nil
  /\ loadErr.nil =>
       /\ seen # << >> => ~UnknownAction(entries[Last(seen)])
       /\ seen # << >> =>
            (result.Matched => (result.Action = ActRead \/ result.Action = ActRemove))
       /\ stats.Errors = Cardinality(FailedUpdates)

C17_Witness ==
  /\ loadErr.nil
  /\ \E i \in DOMAIN rules : rules[i].Action = ActRemoveMixed
  /\ ReturnedNil /\ ~dryRun
  /\ stats.Errors > 0
  /\ stats.Errors = Cardinality(FailedUpdates)
  /\ stats.MatchedEntries > stats.Errors

\* C18: fresh statistics per run. Every Process() call starts from all-zero
\* counters; the statistics of a run count that run's entries only; a run
\* that follows a run which left the remote unchanged, and leaves it
\* unchanged itself, returns the same statistics.
C18_FreshStatsPerRun ==
  [][ /\ run' # run => stats' = ZeroStats
      /\ pc' # "idle" => stats'.TotalEntries = Len(seen')
      /\ (pc' = "done" /\ ~retErr' /\ prev'.ok /\ ~changed') =>
           stats' = prev'.stats
    ]_vars

C18_Witness ==
  /\ run = 2 /\ prev.ok
  /\ ReturnedNil /\ ~changed
  /\ stats = prev.stats
  /\ stats.TotalEntries > Limit
  /\ stats.MarkedRead > 0 /\ stats.Removed > 0 /\ stats.Errors > 0

\* the scenarios whose remote reports its total exactly and that have rules
TermScenarios == {sc \in Scenarios : sc.skew = 0 /\ sc.rules # << >>}

\* the run looked at is the Processor's last one
FairInit == InitAt(MaxRuns - 1, TermScenarios) /\ NoLoop

\* Process() runs in one goroutine from its call to its return: a fetch that
\* is due is made and a loop iteration that is due is taken.
FairSpec ==
  /\ FairInit
  /\ [][Next]_vars
  /\ WF_vars(FetchPage) /\ WF_vars(ProcessEntry)

\* a run is under way
Running == pc = "fetch" \/ pc = "entries"

\* C19: termination. Over a remote with finitely many entries that honours
\* limit and offset, every Process() call returns, in both modes and with or
\* without failing updates; every non-empty page moves the offset up, and the
\* number of fetches is bounded by the pages of the reported total.
C19_Termination ==
  /\ Running ~> Returned
  /\ [][PageEndStep => offset' > offset]_vars
  /\ [](Cardinality(FetchCalls) <= ((Len(entries) + skew) \div Limit) + 2)

C19_Witness ==
  /\ ReturnedNil /\ ~dryRun
  /\ Cardinality(FetchCalls) >= 3
  /\ FailedUpdates # {}
  /\ offset > Limit

\* C20: counter invariant. In every state of a run and at its return,
\* MatchedEntries <= TotalEntries, MarkedRead + Removed <= MatchedEntries and
\* Errors <= MatchedEntries; in dry-run mode MarkedRead + Removed + Errors =
\* MatchedEntries after every entry.
C20_CounterInvariant ==
  /\ stats.MatchedEntries <= stats.TotalEntries
  /\ stats.MarkedRead + stats.Removed <= stats.MatchedEntries
  /\ stats.Errors <= stats.MatchedEntries
  /\ dryRun =>
       stats.MarkedRead + stats.Removed + stats.Errors = stats.MatchedEntries

C20_Witness ==
  /\ dryRun /\ Returned
  /\ stats.MarkedRead > 0 /\ stats.Removed > 0 /\ stats.Errors > 0
  /\ stats.MatchedEntries < stats.TotalEntries
  /\ stats.MarkedRead + stats.Removed < stats.MatchedEntries
  /\ stats.TotalEntries > Limit

\* the step makes a remote call of kind op
CallStep(op) == Len(calls') = Len(calls) + 1 /\ Last(calls').op = op

\* C21: strictly sequential remote operations. A step of a run makes at most
\* one remote call. An update is made for the entry the range loop is at in
\* the page fetched last, the loop moving one entry down the page with each
\* iteration, so updates follow the order of the page; a fetch is made only
\* when every entry of the page before it has had its iteration.
C21_SequentialRemoteCalls ==
  [][ /\ run' = run =>
           /\ Len(calls') <= Len(calls) + 1
           /\ SubSeq(calls', 1, Len(calls)) = calls
      /\ CallStep("update") =>
           /\ pc = "entries" /\ idx \in 1..Len(page.Entries)
           /\ calls # << >>
           /\ Last(calls').ids = << entries[page.Entries[idx]].ID >>
           /\ seen' = Append(seen, page.Entries[idx])
           /\ page' = page /\ idx' = idx + 1
      /\ EntryStep =>
           /\ seen' = Append(seen, page.Entries[idx])
           /\ idx' = idx + 1 /\ page' = page
      /\ CallStep("fetch") =>
           /\ pc = "fetch"
           /\ calls = << >> \/ idx = Len(page.Entries) + 1
           /\ seen' = seen
    ]_vars

C21_Witness ==
  /\ ~dryRun /\ pc = "entries"
  /\ Cardinality(FetchCalls) >= 2
  /\ calls[1].op = "fetch" /\ calls[2].op = "update"
  /\ Last(calls).op = "update"
  /\ Last(calls).ids = << Last(seen) >>
  /\ Len(seen) > Limit + 1

\* the step starts a Process() call
RunStarts == run' # run

\* C22: graceful shutdown in loop mode. runLoop makes one run at once and
\* then one run per tick it consumes; a run starts only when none is under
\* way; once a signal is held by sigChan no run is started (the run made at
\* once apart), and with no run under way runLoop's next step is its return.
C22_GracefulShutdown ==
  [][ /\ RunStarts =>
           /\ pc \in {"idle", "done"}
           /\ lpc = "initial" \/ (lpc = "loop" /\ tick /\ ~tick')
      /\ (RunStarts /\ sig) => lpc = "initial"
      /\ (lpc = "loop" /\ pc = "done" /\ sig /\ (RunStarts \/ lpc' # lpc)) =>
           lpc' = "returned"
    ]_vars

\* C23: Match is read-only and deterministic. No step of a Match call
\* changes the Matcher's compiled rules or an entry, and however the calls
\* of the goroutines sharing the Matcher interleave, each call returns what
\* one sequential Match of the Matcher as built returns for its entry.
C23_MatchReadOnly ==
  [][ /\ matcher' = matcher
      /\ \A c \in Callers :
           /\ mcalls'[c].entry = mcalls[c].entry
           /\ mcalls'[c].at = "done" =>
                mcalls'[c].res = Match(NewMatcher(rules).m, mcalls[c].entry)
    ]_vars

C23_Witness ==
  /\ mcalls[1].at = "done" /\ mcalls[1].res.Matched
  /\ mcalls[1].res.Rule.rule.Name = 2
  /\ mcalls[2].at = "loop" /\ mcalls[2].i = 2
  /\ mcalls[1].entry # mcalls[2].entry
  /\ Match(matcher.m, mcalls[2].entry) # mcalls[1].res

====
